---- MODULE Spec2Model ----
(***************************************************************************)
(* Model of src/model_resample.py: the one-shot training run that loads    *)
(* data/df2.csv, balances the two classes by subsampling, cleans, splits,  *)
(* fits the preprocess -> SMOTE -> random-forest pipeline, evaluates it,   *)
(* ranks the feature importances and writes three artifacts.               *)
(*                                                                         *)
(* The script is a straight line of statements; pc is the statement the    *)
(* interpreter is at.  An uncaught exception ends the run in "crashed",    *)
(* exit() in "exited", the end of the file in "done".                      *)
(***************************************************************************)
EXTENDS Integers, Sequences, FiniteSets, TLC

VARIABLES
    pc,                    \* position in the script
    file_exists,           \* whether data/df2.csv is there
    csv,                   \* the rows of data/df2.csv
    df,                    \* line 19
    balanced_df,           \* lines 32, 36
    df_clean,              \* line 65
    X,                     \* line 67
    y,                     \* line 68
    X_columns,             \* the column order of X (line 67)
    train,                 \* positions of X in X_train / y_train (line 102)
    test,                  \* positions of X in X_test / y_test (line 102)
    pipeline,              \* the imblearn Pipeline object (lines 93-97, 103)
    y_pred,                \* line 106
    eval_rows,             \* index labels of the rows the metrics were computed on
    ohe_features,          \* line 122
    final_feature_names_for_model_input,   \* lines 131-136
    importance_df,         \* lines 146-149; <<>> while the name is unbound
    importance_df_bound,   \* 'importance_df' in locals()
    imp_outcome,           \* how lines 139-164 ended
    files,                 \* the three output artifacts
    writes,                \* the artifacts in the order they were written
    out,                   \* what was printed
    trace                  \* the statements executed so far

vars == <<pc, file_exists, csv, df, balanced_df, df_clean, X, y, X_columns, train, test,
          pipeline, y_pred, eval_rows, ohe_features,
          final_feature_names_for_model_input, importance_df, importance_df_bound,
          imp_outcome, files, writes, out, trace>>

----------------------------------------------------------------------------
(* Bounds of the model.                                                    *)

\* Stand-in for n=1073 of lines 28-29: the rows drawn from each class.
SampleN == 4

\* Stand-in for SMOTE's default k_neighbors (5): a class that is to be
\* oversampled needs more than this many rows.
KNeighbors == 1

\* The input tables are within this many edits of the table that has
\* exactly SampleN plain rows of each class.
MaxEdits == 1

----------------------------------------------------------------------------
(* Script constants.                                                       *)

binary_vars ==
    <<"CutSkipMeals2", "DiffPayMedBills", "SmokeNow", "MedConditions_Diabetes",
      "MedConditions_HighBP", "MedConditions_HeartCondition",
      "MedConditions_LungDisease", "MedConditions_Depression",
      "FamilyEverHadCancer2">>

ordinal_categorical_vars ==
    <<"GeneralHealth", "HealthLimits_Pain", "Nervous", "IncomeRanges", "Education">>

string_categorical_vars == <<"Birthcountry", "BirthSex">>

continuous_vars ==
    <<"Fruit2", "Vegetables2", "TimesStrengthTraining", "Drink_nb_PerMonth",
      "ChildrenInHH", "TotalHousehold", "TimesSunburned", "BMI", "Age",
      "SleepWeekdayHr">>

features_raw ==
    binary_vars \o ordinal_categorical_vars \o string_categorical_vars \o continuous_vars

\* test_size=0.2 of line 102, as the fraction 1/TestDen.
TestDen == 5

\* The three artifacts (lines 168, 173, 177).
PklFile == "modele_cancer_resample_rf.pkl"
CsvFile == "data/importances_cancer_resample_rf.csv"
TxtFile == "data/features_cancer_resample_rf.txt"

----------------------------------------------------------------------------
(* Generic helpers.                                                        *)

Range(s) == {s[i] : i \in DOMAIN s}

Rep(v, k) == [i \in 1..k |-> v]

Count(s, v) == Cardinality({i \in DOMAIN s : s[i] = v})

SameBag(s, t) ==
    /\ Len(s) = Len(t)
    /\ \A v \in Range(s) \cup Range(t) : Count(s, v) = Count(t, v)

RemoveAt(s, i) == SubSeq(s, 1, i - 1) \o SubSeq(s, i + 1, Len(s))

\* The positions that hold the first occurrence of a value of s.
FirstOccurrences(s) == {i \in DOMAIN s : \A j \in 1..(i - 1) : s[j] # s[i]}

RemoveOne(s, v) ==
    LET i == CHOOSE k \in DOMAIN s : s[k] = v /\ \A j \in 1..(k - 1) : s[j] # v
    IN  SubSeq(s, 1, i - 1) \o SubSeq(s, i + 1, Len(s))

RECURSIVE Flatten(_)
Flatten(ss) == IF ss = <<>> THEN <<>> ELSE Head(ss) \o Flatten(Tail(ss))

----------------------------------------------------------------------------
(* The input table.  A row carries its label (0, 1, or 2 for any other     *)
(* value, a missing label included), whether one of the 26 selected        *)
(* feature columns is missing in it, whether a column the script does not  *)
(* select is missing in it, and its two nominal values.  The row labels of *)
(* the raw table are not modelled: line 36 discards them.                  *)

CountryVocab == <<"Mexico", "US">>     \* in sorted order
SexVocab == <<"Female", "Male">>       \* in sorted order

Row(l, na, ona, bc, sex) ==
    [label |-> l, na |-> na, other_na |-> ona, Birthcountry |-> bc, BirthSex |-> sex]

\* The plain row of each class.  The plain row of class 0 lacks a value in
\* a column the script does not select, and differs in BirthSex.
Plain(l) == IF l = 0 THEN Row(0, FALSE, TRUE, "US", "Male")
            ELSE Row(l, FALSE, FALSE, "US", "Female")

\* A label-1 row with a missing selected value.
MissingRow == Row(1, TRUE, FALSE, "US", "Female")

\* A row whose label is neither 0 nor 1.
OtherLabelRow == Row(2, FALSE, FALSE, "US", "Female")

\* A label-1 row with a rare Birthcountry.
RareCountryRow == Row(1, FALSE, FALSE, "Mexico", "Female")

\* The table with exactly SampleN plain rows of each class.
BaseTable == Rep(Plain(1), SampleN) \o Rep(Plain(0), SampleN)

\* The tables one edit away from t: a plain row deleted, a row added, a
\* plain row replaced by a deviating row of its class.
EditsOf(t, added, replacing) ==
    {RemoveOne(t, Plain(l)) : l \in {l \in {0, 1} : Plain(l) \in Range(t)}}
        \cup {Append(t, r) : r \in added}
        \cup {Append(RemoveOne(t, Plain(r.label)), r) :
                r \in {r \in replacing : Plain(r.label) \in Range(t)}}

\* The input tables: those within MaxEdits edits of the base table.
RECURSIVE Tables(_, _, _)
Tables(k, added, replacing) ==
    IF k = 0 THEN {BaseTable}
    ELSE LET nearer == Tables(k - 1, added, replacing)
         IN  nearer \cup UNION {EditsOf(t, added, replacing) : t \in nearer}

----------------------------------------------------------------------------
(* pandas operations.                                                      *)

\* Mutant of FilterLabel: the comparison >= in place of ==.
FilterLabelAtLeast(frame, v) == SelectSeq(frame, LAMBDA r : r.label >= v)

\* df[df['EverHadCancer'] == v]: the rows whose label equals v, in order.
FilterLabel(frame, v) == SelectSeq(frame, LAMBDA r : r.label = v)

\* DataFrame.sample(n=n, replace=False) raises ValueError when the frame
\* has fewer than n rows.
SampleRaises(frame, n) == n > Len(frame)

\* DataFrame.sample(n=n, replace=False): n rows drawn without replacement,
\* in the order drawn.  The seeded generator is not modelled: every draw is
\* a possible outcome.
RECURSIVE Sample(_, _)
Sample(frame, n) ==
    IF n = 0 THEN {<<>>}
    ELSE UNION { {<<frame[i]>> \o t : t \in Sample(RemoveAt(frame, i), n - 1)} :
                 i \in FirstOccurrences(frame) }

\* pd.concat([a, b]): the rows of a, then the rows of b.
Concat(a, b) == a \o b

\* DataFrame.sample(frac=1): all the rows, in the order drawn.
SampleFrac1(frame) == Sample(frame, Len(frame))

\* reset_index(drop=True): the row labels become 0 .. len-1.
ResetIndex(frame) ==
    [i \in DOMAIN frame |->
        [idx |-> i - 1, label |-> frame[i].label, na |-> frame[i].na,
         other_na |-> frame[i].other_na, Birthcountry |-> frame[i].Birthcountry,
         BirthSex |-> frame[i].BirthSex]]

\* Mutant of Dropna: dropna() on the whole frame, before the columns are
\* selected.
DropnaAllColumns(frame) ==
    SelectSeq(frame, LAMBDA r : ~r.na /\ ~r.other_na /\ r.label \in {0, 1})

\* balanced_df[features_raw + [target]].dropna(): the rows with no missing
\* value in a selected column, in order, with their row labels.  A label
\* that is missing is a missing value of the target column; a value missing
\* in a column that was not selected does not count.
Dropna(frame) == SelectSeq(frame, LAMBDA r : ~r.na /\ r.label \in {0, 1})

\* df_clean[features_raw]: the feature columns of each row.
SelectFeatures(frame) ==
    [i \in DOMAIN frame |->
        [idx |-> frame[i].idx, Birthcountry |-> frame[i].Birthcountry,
         BirthSex |-> frame[i].BirthSex]]

\* df_clean[target]: the label of each row.
SelectTarget(frame) ==
    [i \in DOMAIN frame |-> [idx |-> frame[i].idx, label |-> frame[i].label]]

----------------------------------------------------------------------------
(* Initial state.                                                          *)

Unfitted ==
    [fitted |-> FALSE, preprocess_fitted |-> FALSE, categories_ |-> <<>>,
     columns_out |-> <<>>, fit_rows |-> {}, fit_steps |-> <<>>,
     predict_steps |-> <<>>, smote_in |-> <<0, 0>>, model_in |-> <<0, 0>>,
     n_features_in_ |-> 0, feature_importances_ |-> <<>>]

NoFile == [n |-> 0, data |-> <<>>]

InitOn(tables) ==
    /\ pc = "Load"
    /\ file_exists \in BOOLEAN
    /\ csv \in (IF file_exists THEN tables ELSE {<<>>})
    /\ df = <<>>
    /\ balanced_df = <<>>
    /\ df_clean = <<>>
    /\ X = <<>>
    /\ y = <<>>
    /\ X_columns = <<>>
    /\ train = {}
    /\ test = {}
    /\ pipeline = Unfitted
    /\ y_pred = <<>>
    /\ eval_rows = {}
    /\ ohe_features = <<>>
    /\ final_feature_names_for_model_input = <<>>
    /\ importance_df = <<>>
    /\ importance_df_bound = FALSE
    /\ imp_outcome = "none"
    /\ files = [pkl |-> NoFile, csv |-> NoFile, txt |-> NoFile]
    /\ writes = <<>>
    /\ out = <<>>
    /\ trace = <<>>

Init == InitOn(Tables(MaxEdits, {Plain(0), Plain(1), OtherLabelRow}, {MissingRow}))

InitNominal == InitOn(Tables(MaxEdits, {Plain(0), Plain(1)}, {RareCountryRow}))

----------------------------------------------------------------------------
(* Lines 18-37: load and balance.                                          *)

\* Mutant of OnFileNotFound: the except clause prints and falls through.
OnFileNotFoundFallThrough == "Resample"

\* Lines 20-22: the except clause prints and calls exit().
OnFileNotFound == "exited"

\* Lines 18-22.
Load ==
    /\ pc = "Load"
    /\ trace' = Append(trace, "Load")
    /\ IF file_exists
       THEN /\ df' = csv
            /\ pc' = "Resample"
            /\ out' = out
       ELSE /\ df' = df
            /\ pc' = OnFileNotFound
            /\ out' = Append(out, "Erreur: fichier non trouve")
    /\ UNCHANGED <<file_exists, csv, balanced_df, df_clean, X, y, X_columns,
                   train, test, pipeline, y_pred, eval_rows, ohe_features,
                   final_feature_names_for_model_input, importance_df,
                   importance_df_bound, imp_outcome, files, writes>>

\* Mutant of OnSampleError: the error is swallowed and the run goes on.
OnSampleErrorSwallowed == "Shuffle"

\* Lines 28-29 stand in no try block: the ValueError of sample() ends the run.
OnSampleError == "crashed"

\* Lines 24-32.  The frames of lines 24-29 are read by nothing after line
\* 32 and are temporaries of this step.  Line 28 raises before line 29 runs.
Resample ==
    /\ pc = "Resample"
    /\ trace' = Append(trace, "Resample")
    /\ LET cancer_oui == FilterLabel(df, 1)
           cancer_non == FilterLabel(df, 0)
       IN  IF SampleRaises(cancer_oui, SampleN) \/ SampleRaises(cancer_non, SampleN)
           THEN /\ pc' = OnSampleError
                /\ out' = Append(out, "ValueError")
                /\ UNCHANGED balanced_df
           ELSE /\ \E resample_cancer_oui \in Sample(cancer_oui, SampleN),
                      resample_cancer_non \in Sample(cancer_non, SampleN) :
                      balanced_df' = Concat(resample_cancer_oui, resample_cancer_non)
                /\ pc' = "Shuffle"
                /\ out' = out
    /\ UNCHANGED <<file_exists, csv, df, df_clean, X, y, X_columns,
                   train, test, pipeline, y_pred, eval_rows, ohe_features,
                   final_feature_names_for_model_input, importance_df,
                   importance_df_bound, imp_outcome, files, writes>>

\* Lines 36-37.
Shuffle ==
    /\ pc = "Shuffle"
    /\ trace' = Append(trace, "Shuffle")
    /\ balanced_df' \in {ResetIndex(s) : s \in SampleFrac1(balanced_df)}
    /\ out' = Append(out, "value_counts")
    /\ pc' = "Clean"
    /\ UNCHANGED <<file_exists, csv, df, df_clean, X, y,
                   X_columns, train, test, pipeline, y_pred, eval_rows,
                   ohe_features, final_feature_names_for_model_input,
                   importance_df, importance_df_bound, imp_outcome, files,
                   writes>>

----------------------------------------------------------------------------
(* Lines 63-68: feature selection and cleaning.                            *)

Clean ==
    /\ pc = "Clean"
    /\ trace' = Append(trace, "Clean")
    /\ df_clean' = Dropna(balanced_df)
    /\ X' = SelectFeatures(df_clean')
    /\ y' = SelectTarget(df_clean')
    /\ X_columns' = features_raw
    /\ pc' = "Split"
    /\ UNCHANGED <<file_exists, csv, df, balanced_df,
                   train, test, pipeline, y_pred, eval_rows, ohe_features,
                   final_feature_names_for_model_input, importance_df,
                   importance_df_bound, imp_outcome, files, writes, out>>

----------------------------------------------------------------------------
(* Line 102: train_test_split(X, y, test_size=0.2).                        *)

\* ceil(test_size * n_samples).
NTest(n) == (n + TestDen - 1) \div TestDen

\* n_samples - n_test.
NTrain(n) == n - NTest(n)

\* train_test_split raises ValueError when the train set would be empty.
SplitRaises(n) == NTrain(n) = 0

\* The test positions: the first n_test entries of a permutation of the
\* positions; the train positions are the entries after them.  The order
\* inside each part is not modelled.
TestChoices(n) == {S \in SUBSET (1..n) : Cardinality(S) = NTest(n)}

TrainOf(n, testPos) == (1..n) \ testPos

Split ==
    /\ pc = "Split"
    /\ trace' = Append(trace, "Split")
    /\ IF SplitRaises(Len(X))
       THEN /\ pc' = "crashed"
            /\ out' = Append(out, "ValueError")
            /\ UNCHANGED <<train, test>>
       ELSE /\ test' \in TestChoices(Len(X))
            /\ train' = TrainOf(Len(X), test')
            /\ pc' = "Fit"
            /\ out' = out
    /\ UNCHANGED <<file_exists, csv, df, balanced_df,
                   df_clean, X, y, X_columns, pipeline, y_pred, eval_rows,
                   ohe_features, final_feature_names_for_model_input,
                   importance_df, importance_df_bound, imp_outcome, files,
                   writes>>

----------------------------------------------------------------------------
(* Lines 77-97: the preprocessor and the pipeline.                         *)

\* A feature name.  A one-hot name col_cat is the pair <<col, cat>>; the
\* name of any other column is <<col, "">>.
Name(col) == <<col, "">>

Names(cols) == [i \in DOMAIN cols |-> Name(cols[i])]

Value(r, col) == IF col = "Birthcountry" THEN r.Birthcountry ELSE r.BirthSex

Vocab(col) == IF col = "Birthcountry" THEN CountryVocab ELSE SexVocab

\* np.unique of a column: its distinct values, sorted.
SortedUnique(vals, vocab) == SelectSeq(vocab, LAMBDA c : c \in vals)

\* OneHotEncoder.fit: categories_[i] are the sorted distinct values of the
\* i-th column among the rows it is fitted on.
OneHotFit(rows, cols) ==
    [i \in DOMAIN cols |-> SortedUnique({Value(r, cols[i]) : r \in rows}, Vocab(cols[i]))]

\* OneHotEncoder(drop='first').get_feature_names_out(input_features): per
\* column, one name per category but the first.
GetFeatureNamesOut(cats, input_features) ==
    Flatten([i \in DOMAIN input_features |->
                [j \in 1..(Len(cats[i]) - 1) |-> <<input_features[i], cats[i][j + 1]>>]])

\* Lines 77-81.
transformers ==
    << [name |-> "ord",   columns |-> ordinal_categorical_vars],
       [name |-> "ohe",   columns |-> string_categorical_vars],
       [name |-> "scale", columns |-> continuous_vars] >>

\* remainder='passthrough': the columns of X no transformer names, in the
\* order they have in X.
Remainder(Xcols) ==
    SelectSeq(Xcols, LAMBDA c : \A i \in DOMAIN transformers :
                                    c \notin Range(transformers[i].columns))

TransformerOut(t, cats) ==
    IF t.name = "ohe" THEN GetFeatureNamesOut(cats, t.columns) ELSE Names(t.columns)

\* ColumnTransformer.transform: the output columns of each transformer in
\* list order, then the remainder.
ColumnsOut(Xcols, cats) ==
    Flatten([i \in DOMAIN transformers |-> TransformerOut(transformers[i], cats)])
        \o Names(Remainder(Xcols))

\* Lines 93-97.
steps ==
    << [name |-> "preprocess", kind |-> "transformer"],
       [name |-> "smote",      kind |-> "sampler"],
       [name |-> "model",      kind |-> "estimator"] >>

\* imblearn Pipeline.fit runs every step.
FitSteps == steps

\* imblearn Pipeline.predict skips the samplers.
PredictSteps == SelectSeq(steps, LAMBDA st : st.kind # "sampler")

\* The label counts <<count of 0, count of 1>> of a set of y rows.
LabelCounts(rows) ==
    << Cardinality({r \in rows : r.label = 0}), Cardinality({r \in rows : r.label = 1}) >>

Max2(c) == IF c[1] >= c[2] THEN c[1] ELSE c[2]

\* SMOTE.fit_resample raises ValueError when y has fewer than two classes,
\* and when a class it has to oversample has no more than k_neighbors rows.
SmoteRaises(c) ==
    \/ c[1] = 0
    \/ c[2] = 0
    \/ \E k \in 1..2 : c[k] < Max2(c) /\ c[k] <= KNeighbors

\* Mutant of SmoteResample: the sampler passes the rows through.
SmotePassThrough(c) == c

\* SMOTE(sampling_strategy='auto'): every class but the majority receives
\* synthetic rows until it has as many rows as the majority.
SmoteResample(c) == [k \in 1..2 |-> c[k] + (Max2(c) - c[k])]

\* Stand-in for the forest's impurity importances, which are opaque: one
\* score per input column, depending on the training data, with ties.
ForestImportances(nf, nrows) == [i \in 1..nf |-> (i * (1 + nrows)) % 4]

\* What one step of Pipeline.fit does to the run st = [pipe, counts, ok],
\* on the X rows and y rows it was given.
FitStep(st, step, Xrows, Xcols) ==
    IF ~st.ok THEN st
    ELSE LET ran == [st EXCEPT !.pipe.fit_steps = Append(@, step.name)] IN
         CASE step.kind = "transformer" ->
                LET cats == OneHotFit(Xrows, string_categorical_vars) IN
                [ran EXCEPT !.pipe.preprocess_fitted = TRUE,
                            !.pipe.categories_ = cats,
                            !.pipe.columns_out = ColumnsOut(Xcols, cats),
                            !.pipe.fit_rows = {r.idx : r \in Xrows}]
           [] step.kind = "sampler" ->
                IF SmoteRaises(st.counts)
                THEN [ran EXCEPT !.ok = FALSE, !.pipe.smote_in = st.counts]
                ELSE [ran EXCEPT !.counts = SmoteResample(st.counts),
                                 !.pipe.smote_in = st.counts]
           [] OTHER ->
                [ran EXCEPT !.pipe.fitted = TRUE,
                            !.pipe.model_in = st.counts,
                            !.pipe.n_features_in_ = Len(st.pipe.columns_out),
                            !.pipe.feature_importances_ =
                                ForestImportances(Len(st.pipe.columns_out),
                                                  st.counts[1] + st.counts[2])]

\* The steps of todo, one after the other.
RECURSIVE FitRun(_, _, _, _)
FitRun(st, todo, Xrows, Xcols) ==
    IF todo = <<>> THEN st
    ELSE CHOOSE r \in {FitRun(after, Tail(todo), Xrows, Xcols) :
                          after \in {FitStep(st, Head(todo), Xrows, Xcols)}} : TRUE

\* pipeline.fit(Xrows, yrows).
PipelineFit(pipe, Xrows, yrows, Xcols) ==
    FitRun([pipe |-> pipe, counts |-> LabelCounts(yrows), ok |-> TRUE],
           FitSteps, Xrows, Xcols)

\* The rows of a frame at the given positions.
Take(frame, positions) == {frame[i] : i \in positions}

\* Mutant of X_train: the pipeline is fitted on every row of X.
X_trainAllRows == Take(X, 1..Len(X))

\* Line 102: the four parts of the split.
X_train == Take(X, train)
y_train == Take(y, train)
X_test == Take(X, test)
y_test == Take(y, test)

\* Line 103.
Fit ==
    /\ pc = "Fit"
    /\ trace' = Append(trace, "Fit")
    /\ \E r \in {PipelineFit(pipeline, X_train, y_train, X_columns)} :
       /\ pipeline' = r.pipe
       /\ IF r.ok
          THEN pc' = "Evaluate" /\ out' = out
          ELSE pc' = "crashed" /\ out' = Append(out, "ValueError")
    /\ UNCHANGED <<file_exists, csv, df, balanced_df,
                   df_clean, X, y, X_columns, train, test, y_pred, eval_rows,
                   ohe_features, final_feature_names_for_model_input,
                   importance_df, importance_df_bound, imp_outcome, files,
                   writes>>

\* pipeline.predict(Xrows): one prediction per row that reaches the model;
\* no step refits.
PipelinePredict(pipe, Xrows) ==
    [pipe |-> [pipe EXCEPT !.predict_steps =
                              [i \in DOMAIN PredictSteps |-> PredictSteps[i].name]],
     y_pred |-> [i \in 1..Cardinality(Xrows) |-> "prediction"]]

\* Lines 106-108.  accuracy_score raises ValueError when y_test and y_pred
\* differ in length.
Evaluate ==
    /\ pc = "Evaluate"
    /\ trace' = Append(trace, "Evaluate")
    /\ \E r \in {PipelinePredict(pipeline, X_test)} :
       /\ pipeline' = r.pipe
       /\ y_pred' = r.y_pred
       /\ IF Len(r.y_pred) = Cardinality(y_test)
          THEN /\ eval_rows' = {row.idx : row \in y_test}
               /\ out' = out \o <<"Accuracy", "Classification Report">>
               /\ pc' = "FeatureNames"
          ELSE /\ eval_rows' = eval_rows
               /\ out' = Append(out, "ValueError")
               /\ pc' = "crashed"
    /\ UNCHANGED <<file_exists, csv, df, balanced_df,
                   df_clean, X, y, X_columns, train, test, ohe_features,
                   final_feature_names_for_model_input, importance_df,
                   importance_df_bound, imp_outcome, files, writes>>

----------------------------------------------------------------------------
(* Lines 116-136: the final feature names.                                 *)

\* Mutant of FinalFeatureNames: the names in the column order of X.
FinalFeatureNamesInputOrder(ohe) ==
    Names(binary_vars) \o Names(ordinal_categorical_vars) \o ohe \o Names(continuous_vars)

\* Lines 131-136.
FinalFeatureNames(ohe) ==
    Names(ordinal_categorical_vars) \o ohe \o Names(continuous_vars) \o Names(binary_vars)

FeatureNames ==
    /\ pc = "FeatureNames"
    /\ trace' = Append(trace, "FeatureNames")
    /\ ohe_features' = GetFeatureNamesOut(pipeline.categories_, string_categorical_vars)
    /\ final_feature_names_for_model_input' = FinalFeatureNames(ohe_features')
    /\ pc' = "Importance"
    /\ UNCHANGED <<file_exists, csv, df, balanced_df,
                   df_clean, X, y, X_columns, train, test, pipeline, y_pred,
                   eval_rows, importance_df, importance_df_bound, imp_outcome,
                   files, writes, out>>

----------------------------------------------------------------------------
(* Lines 139-164: the importance table and its plot.                       *)

\* hasattr(model_trained, 'feature_importances_'): the attribute of a
\* forest raises NotFittedError, an AttributeError, until it is fitted.
HasImportances(pipe) == pipe.fitted

\* pd.DataFrame({...}) raises ValueError when its columns differ in length.
DataFrameRaises(names, importances) == Len(names) # Len(importances)

DataFrame(names, importances) ==
    [i \in DOMAIN names |-> [Variable |-> names[i], Importance |-> importances[i]]]

\* The place row i takes when the frame is sorted by descending Importance,
\* rows of equal Importance keeping their order.
PlaceDesc(frame, i) ==
    1 + Cardinality({j \in DOMAIN frame :
                        \/ frame[j].Importance > frame[i].Importance
                        \/ frame[j].Importance = frame[i].Importance /\ j < i})

\* sort_values(by='Importance', ascending=False).
SortValuesDesc(frame) ==
    CHOOSE sorted \in
        { [p \in DOMAIN frame |-> frame[CHOOSE i \in DOMAIN frame : place[i] = p]] :
            place \in {[i \in DOMAIN frame |-> PlaceDesc(frame, i)]} } : TRUE

\* The faults the environment can inject into the step: none, an exception
\* while the table is built, an exception while it is plotted.
Faults == {"none", "table", "plot"}

\* How the try block ends under a fault: the outcome, whether
\* importance_df was assigned, and whether the except clause ran.
TryImportance(pipe, names, fault) ==
    IF ~HasImportances(pipe)
    THEN [outcome |-> "no_attr", bound |-> FALSE, caught |-> FALSE]
    ELSE IF fault = "table" \/ DataFrameRaises(names, pipe.feature_importances_)
    THEN [outcome |-> "fail_table", bound |-> FALSE, caught |-> TRUE]
    ELSE IF fault = "plot"
    THEN [outcome |-> "fail_plot", bound |-> TRUE, caught |-> TRUE]
    ELSE [outcome |-> "ok", bound |-> TRUE, caught |-> FALSE]

\* Mutant of AfterImportance: no except clause, the exception ends the run.
AfterImportanceUncaught(r) == IF r.caught THEN "crashed" ELSE "DumpPipeline"

\* Where the script goes after lines 139-164: the except clause swallows
\* the exception, so line 168 is next either way.
AfterImportance(r) == "DumpPipeline"

Importance ==
    /\ pc = "Importance"
    /\ trace' = Append(trace, "Importance")
    /\ \E fault \in Faults :
        \E r \in {TryImportance(pipeline, final_feature_names_for_model_input, fault)} :
        /\ imp_outcome' = r.outcome
        /\ importance_df_bound' = r.bound
        /\ importance_df' =
              IF r.bound
              THEN CHOOSE t \in {SortValuesDesc(f) :
                                   f \in {DataFrame(final_feature_names_for_model_input,
                                                    pipeline.feature_importances_)}} : TRUE
              ELSE importance_df
        /\ out' = IF r.caught THEN Append(out, "Erreur importances")
                  ELSE IF r.outcome = "no_attr" THEN Append(out, "pas d'attribut")
                  ELSE out
        /\ pc' = AfterImportance(r)
    /\ UNCHANGED <<file_exists, csv, df, balanced_df,
                   df_clean, X, y, X_columns, train, test, pipeline, y_pred,
                   eval_rows, ohe_features, final_feature_names_for_model_input,
                   files, writes>>

----------------------------------------------------------------------------
(* Lines 167-180: persistence.                                             *)

WriteFile(f, data) == [n |-> f.n + 1, data |-> data]

\* Lines 168-169.
DumpPipeline ==
    /\ pc = "DumpPipeline"
    /\ trace' = Append(trace, "DumpPipeline")
    /\ files' = [files EXCEPT !.pkl = WriteFile(@, <<pipeline>>)]
    /\ writes' = Append(writes, PklFile)
    /\ out' = Append(out, "Pipeline sauvegarde")
    /\ pc' = "SaveImportances"
    /\ UNCHANGED <<file_exists, csv, df, balanced_df,
                   df_clean, X, y, X_columns, train, test, pipeline, y_pred,
                   eval_rows, ohe_features, final_feature_names_for_model_input,
                   importance_df, importance_df_bound, imp_outcome>>

\* Mutant of ImportanceInLocals: the table is saved only when the step
\* ended without an exception.
ImportanceStepClean == imp_outcome = "ok"

\* Mutant of ImportanceInLocals: the name tested is not the name assigned,
\* so the test never succeeds.
ImportanceNameMistyped == FALSE

\* Line 172.
ImportanceInLocals == importance_df_bound

\* Lines 172-174.
SaveImportances ==
    /\ pc = "SaveImportances"
    /\ trace' = Append(trace, "SaveImportances")
    /\ IF ImportanceInLocals
       THEN /\ files' = [files EXCEPT !.csv = WriteFile(@, importance_df)]
            /\ writes' = Append(writes, CsvFile)
            /\ out' = Append(out, "Importances sauvegardees")
       ELSE UNCHANGED <<files, writes, out>>
    /\ pc' = "SaveFeatures"
    /\ UNCHANGED <<file_exists, csv, df, balanced_df,
                   df_clean, X, y, X_columns, train, test, pipeline, y_pred,
                   eval_rows, ohe_features, final_feature_names_for_model_input,
                   importance_df, importance_df_bound, imp_outcome>>

\* Lines 177-180: one line per feature name.
SaveFeatures ==
    /\ pc = "SaveFeatures"
    /\ trace' = Append(trace, "SaveFeatures")
    /\ files' = [files EXCEPT !.txt =
                    WriteFile(@, [i \in DOMAIN final_feature_names_for_model_input |->
                                     final_feature_names_for_model_input[i]])]
    /\ writes' = Append(writes, TxtFile)
    /\ out' = Append(out, "Noms des features sauvegardes")
    /\ pc' = "done"
    /\ UNCHANGED <<file_exists, csv, df, balanced_df,
                   df_clean, X, y, X_columns, train, test, pipeline, y_pred,
                   eval_rows, ohe_features, final_feature_names_for_model_input,
                   importance_df, importance_df_bound, imp_outcome>>

----------------------------------------------------------------------------
(* The run.                                                                *)

Next ==
    \/ Load
    \/ Resample
    \/ Shuffle
    \/ Clean
    \/ Split
    \/ Fit
    \/ Evaluate
    \/ FeatureNames
    \/ Importance
    \/ DumpPipeline
    \/ SaveImportances
    \/ SaveFeatures

Spec == Init /\ [][Next]_vars

\* The same run on inputs whose nominal columns vary.
SpecNominal == InitNominal /\ [][Next]_vars

Terminated == pc \in {"done", "exited", "crashed"}

----------------------------------------------------------------------------
(* Properties.                                                             *)

Has(stmt) == \E i \in DOMAIN trace : trace[i] = stmt

Labels(frame, v) == Cardinality({i \in DOMAIN frame : frame[i].label = v})

DropIndex(frame) ==
    [i \in DOMAIN frame |->
        Row(frame[i].label, frame[i].na, frame[i].other_na,
            frame[i].Birthcountry, frame[i].BirthSex)]

NoArtifact ==
    /\ files.pkl.n = 0
    /\ files.csv.n = 0
    /\ files.txt.n = 0
    /\ writes = <<>>

\* C1: once the balancer has completed, the balanced dataset has exactly
\* 2 x SampleN rows, SampleN of them with label 1 and SampleN with label 0,
\* and no row with any other label; the shuffle of line 36 only permutes
\* the rows it is given (and relabels them 0 .. 2 x SampleN - 1).
C1_BalancedCounts ==
    /\ [](Has("Resample") /\ (pc # "crashed" \/ Has("Shuffle")) =>
            /\ Len(balanced_df) = 2 * SampleN
            /\ Labels(balanced_df, 1) = SampleN
            /\ Labels(balanced_df, 0) = SampleN
            /\ \A i \in DOMAIN balanced_df : balanced_df[i].label \in {0, 1})
    /\ [](Has("Shuffle") => \A i \in DOMAIN balanced_df : balanced_df[i].idx = i - 1)
    /\ [][pc = "Shuffle" => SameBag(DropIndex(balanced_df'), balanced_df)]_vars

C1_Witness ==
    /\ Has("Shuffle")
    /\ Len(balanced_df) = 2 * SampleN
    /\ \E i \in DOMAIN df : df[i].label = 2

\* C2: when the input file is absent the run prints the diagnostic and
\* stops at once: Load is the only statement executed, nothing else can
\* run, and no artifact is written.
C2_MissingFileStops ==
    ~file_exists =>
        \/ pc = "Load"
        \/ /\ pc = "exited"
           /\ trace = <<"Load">>
           /\ out = <<"Erreur: fichier non trouve">>
           /\ NoArtifact
           /\ ~ENABLED Next

C2_Witness == ~file_exists /\ pc = "exited"

\* C3: when the importance step raises after a successful fit, the
\* exception is caught and reported, the run does not abort but goes on to
\* the end, and at the end the fitted pipeline has been written to its file
\* and the feature-name file after it.
C3_ImportanceFailureNotFatal ==
    imp_outcome \in {"fail_table", "fail_plot"} =>
        /\ pipeline.fitted
        /\ pc # "crashed"
        /\ \E i \in DOMAIN out : out[i] = "Erreur importances"
        /\ pc # "done" => ENABLED Next
        /\ pc = "done" =>
              /\ files.pkl.n = 1
              /\ files.pkl.data = <<pipeline>>
              /\ files.txt.n = 1
              /\ \E i, j \in DOMAIN writes :
                    i < j /\ writes[i] = PklFile /\ writes[j] = TxtFile

C3_Witness ==
    /\ pc = "done"
    /\ imp_outcome = "fail_table"
    /\ files.pkl.n = 1
    /\ files.txt.n = 1

\* The one-hot names the fitted categories give: per nominal column, one
\* name per category but the first.
ExpectedOhe ==
    LET c1 == Tail(pipeline.categories_[1])
        c2 == Tail(pipeline.categories_[2])
    IN  [j \in DOMAIN c1 |-> <<"Birthcountry", c1[j]>>]
            \o [j \in DOMAIN c2 |-> <<"BirthSex", c2[j]>>]

\* C4: in every fitted run the final feature-name list is the column
\* sequence the preprocessor emits: the 5 ordinal names, the one-hot names,
\* the 10 continuous names, the 9 binary names in their input order; its
\* length is the width the classifier was fitted on; and the feature-name
\* file holds these names, one per line, in that order.
C4_NamesMatchColumns ==
    Has("FeatureNames") =>
        /\ final_feature_names_for_model_input = pipeline.columns_out
        /\ final_feature_names_for_model_input =
              Names(ordinal_categorical_vars) \o ExpectedOhe
                  \o Names(continuous_vars) \o Names(binary_vars)
        /\ Len(ordinal_categorical_vars) = 5
        /\ Len(continuous_vars) = 10
        /\ Len(binary_vars) = 9
        /\ Len(final_feature_names_for_model_input) = pipeline.n_features_in_
        /\ Len(final_feature_names_for_model_input) = 5 + Len(ExpectedOhe) + 10 + 9
        /\ files.txt.n > 0 => files.txt.data = final_feature_names_for_model_input

C4_Witness ==
    /\ pc = "done"
    /\ pipeline.categories_[1] = <<"Mexico", "US">>
    /\ Len(final_feature_names_for_model_input) = 26
    /\ files.txt.n = 1

\* C5: the train and test parts are disjoint and cover the cleaned rows,
\* the test part holding a fifth of them, rounded up; the pipeline is
\* fitted on the training rows only (its categories are those of the
\* training rows), and the metrics are computed on the test rows only, none
\* of which was seen by fit.
C5_NoLeakage ==
    train # {} =>
        /\ train \cap test = {}
        /\ train \cup test = 1..Len(X)
        /\ 5 * Cardinality(test) >= Len(X)
        /\ 5 * (Cardinality(test) - 1) < Len(X)
        /\ 5 * Cardinality(train) <= 4 * Len(X)
        /\ pipeline.preprocess_fitted =>
              /\ pipeline.fit_rows = {X[i].idx : i \in train}
              /\ \A k \in DOMAIN string_categorical_vars :
                    Range(pipeline.categories_[k]) =
                        {Value(X[i], string_categorical_vars[k]) : i \in train}
        /\ Has("Evaluate") /\ pc # "crashed" =>
              /\ eval_rows = {y[i].idx : i \in test}
              /\ eval_rows \cap pipeline.fit_rows = {}
              /\ pipeline.fit_rows = {X[i].idx : i \in train}

C5_Witness ==
    /\ pc = "done"
    /\ \E i \in test : X[i].Birthcountry = "Mexico"
    /\ pipeline.categories_[1] = <<"US">>

\* C6: the oversampler runs in fit only, after the preprocessor and before
\* the classifier; it adds rows to the minority class only, until the two
\* classes are level, so the classifier is trained on equal label counts
\* even when the training split is not balanced; predict skips it and
\* yields one prediction per test row.
C6_SmoteFitOnly ==
    /\ pipeline.fitted =>
          /\ pipeline.fit_steps = <<"preprocess", "smote", "model">>
          /\ pipeline.smote_in = LabelCounts({y[i] : i \in train})
          /\ pipeline.model_in[1] = pipeline.model_in[2]
          /\ \A k \in 1..2 : pipeline.model_in[k] >= pipeline.smote_in[k]
          /\ \E k \in 1..2 : pipeline.model_in[k] = pipeline.smote_in[k]
    /\ Has("Evaluate") /\ pc # "crashed" =>
          /\ pipeline.predict_steps = <<"preprocess", "model">>
          /\ pipeline.fit_steps = <<"preprocess", "smote", "model">>
          /\ Len(y_pred) = Cardinality(test)

C6_Witness ==
    /\ pc = "done"
    /\ pipeline.smote_in[1] # pipeline.smote_in[2]
    /\ pipeline.model_in[1] = pipeline.model_in[2]
    /\ Len(y_pred) = Cardinality(test)

Undersized ==
    \/ Len(FilterLabel(df, 1)) < SampleN
    \/ Len(FilterLabel(df, 0)) < SampleN

\* C7: when a class has fewer rows than the sample size the balancer fails
\* and the failure ends the run: it is neither caught nor clamped, no later
\* statement runs and no artifact is written.
C7_UndersizedClassCrashes ==
    Has("Load") /\ file_exists /\ Undersized =>
        \/ pc = "Resample" /\ ENABLED Next
        \/ /\ pc = "crashed"
           /\ trace = <<"Load", "Resample">>
           /\ balanced_df = <<>>
           /\ NoArtifact
           /\ ~ENABLED Next

C7_Witness ==
    /\ pc = "crashed"
    /\ Len(FilterLabel(df, 1)) = SampleN - 1
    /\ Len(FilterLabel(df, 0)) >= SampleN

FullRun ==
    <<"Load", "Resample", "Shuffle", "Clean", "Split", "Fit", "Evaluate",
      "FeatureNames", "Importance", "DumpPipeline", "SaveImportances",
      "SaveFeatures">>

\* C8: a run whose stages all succeed executes each statement once, in the
\* order of the script, and ends having written the three artifacts once
\* each, pipeline file, importance file, feature-name file, in that order;
\* no artifact is written before fit and evaluation are over.  Termination:
\* the statements executed are always a prefix of the script, a run that has
\* not ended stands at the statement after that prefix and can execute it,
\* and a run that has ended executes nothing more.
C8_FullRunOrder ==
    /\ pc = "done" /\ imp_outcome = "ok" =>
          /\ trace = FullRun
          /\ writes = <<PklFile, CsvFile, TxtFile>>
          /\ files.pkl.n = 1 /\ files.csv.n = 1 /\ files.txt.n = 1
    /\ ~NoArtifact =>
          /\ Has("Fit") /\ Has("Evaluate")
          /\ pipeline.fitted
          /\ eval_rows # {}
          /\ writes = SubSeq(<<PklFile, CsvFile, TxtFile>>, 1, Len(writes))
             \/ writes = <<PklFile, TxtFile>>
    /\ trace = SubSeq(FullRun, 1, Len(trace))
    /\ ~Terminated =>
          /\ Len(trace) < Len(FullRun)
          /\ pc = FullRun[Len(trace) + 1]
          /\ ENABLED Next
    /\ Terminated => ~ENABLED Next

C8_Witness ==
    /\ pc = "done"
    /\ imp_outcome = "ok"
    /\ writes = <<PklFile, CsvFile, TxtFile>>

\* C9: cleaning keeps exactly the rows of the balanced dataset that miss no
\* selected value, in their order; X and y come from the same cleaned rows,
\* row i of y being the label of row i of X; and the columns of X are the
\* binary, ordinal, nominal and continuous ones, in that order.
C9_CleanAligned ==
    Has("Clean") =>
        /\ \A i \in DOMAIN balanced_df :
              (\E j \in DOMAIN df_clean : df_clean[j] = balanced_df[i])
                  <=> ~balanced_df[i].na
        /\ \A i, j \in DOMAIN df_clean : i < j => df_clean[i].idx < df_clean[j].idx
        /\ Len(X) = Len(df_clean)
        /\ Len(y) = Len(df_clean)
        /\ \A i \in DOMAIN X :
              /\ X[i].idx = y[i].idx
              /\ X[i].idx = df_clean[i].idx
              /\ y[i].label = balanced_df[X[i].idx + 1].label
              /\ X[i].Birthcountry = balanced_df[X[i].idx + 1].Birthcountry
        /\ X_columns = binary_vars \o ordinal_categorical_vars
                           \o string_categorical_vars \o continuous_vars
        /\ Len(X_columns) = 26

C9_Witness ==
    /\ Has("Clean")
    /\ Len(df_clean) = Len(balanced_df) - 1
    /\ \E i \in DOMAIN df_clean : df_clean[i].other_na

\* C10: at the end of the run the importance file has been written if and
\* only if the table was built before any failure of the importance step:
\* not when the table could not be built or the classifier has no
\* importances, but also when only the plot failed; when written it has one
\* row per final feature name, sorted by descending importance.
C10_ImportanceFileIffTable ==
    /\ files.csv.n > 0 => importance_df_bound
    /\ pc = "done" =>
          /\ files.csv.n = 1 <=> importance_df_bound
          /\ imp_outcome \in {"fail_table", "no_attr"} => files.csv.n = 0
          /\ imp_outcome \in {"ok", "fail_plot"} => files.csv.n = 1
          /\ files.csv.n = 1 =>
                LET t == files.csv.data IN
                /\ SameBag([i \in DOMAIN t |-> t[i].Variable],
                           final_feature_names_for_model_input)
                /\ \A i \in DOMAIN t :
                      \E k \in DOMAIN final_feature_names_for_model_input :
                          /\ t[i].Variable = final_feature_names_for_model_input[k]
                          /\ t[i].Importance = pipeline.feature_importances_[k]
                /\ \A i, j \in DOMAIN t : i < j => t[i].Importance >= t[j].Importance

C10_Witness ==
    /\ pc = "done"
    /\ imp_outcome = "fail_plot"
    /\ files.csv.n = 1
    /\ \E i, j \in DOMAIN files.csv.data :
          files.csv.data[i].Importance > files.csv.data[j].Importance

====
